---- MODULE Spec2Model ----
(***************************************************************************)
(* Model of the InnerEye-CreateDataset image-processing core:              *)
(*   - the disjoint-set node Set<U> (connectedComponents.h)                *)
(*   - findConnectedComponents3d (connectedComponents.h)                   *)
(*   - the pixel codec, convolve_reference, convolve and convolve1d        *)
(*     (convolution.h)                                                     *)
(*   - GaussianKernel1D (GaussianKernel1D.cpp) and Convolution::Convolve   *)
(*     (ConvolutionClr.cpp)                                                *)
(* Five specifications share the module: SpecSet drives unite/find on a    *)
(* small forest, SpecCC runs findConnectedComponents3d voxel by voxel,     *)
(* SpecConv runs convolve1d slice by slice, SpecGauss runs                 *)
(* Convolution::Convolve pass by pass on the finiteness of the values, and *)
(* SpecRows runs the threads of one convolve call step by step.            *)
(***************************************************************************)
EXTENDS Integers, Sequences, FiniteSets, TLC

VARIABLES
  \* ---- Set<U> nodes (shared by SpecSet and SpecCC) ----
  parent,          \* node -> node or Nil        (Set::parent_)
  rank,            \* node -> 0..RANK_MAX        (Set::rank_)
  error,           \* "" or the message of the std::exception thrown
  \* ---- SpecSet bookkeeping ----
  cls,             \* node -> least node of its class in the equivalence
                   \* generated by the pairs passed to unite so far: every
                   \* node alone at first, unite(x, y) merges the classes
                   \* of x and y
  lastCall,        \* the last call made and what it saw
  \* ---- findConnectedComponents3d ----
  width, height, depth,
  inputBuffer,     \* voxel index -> T
  backgroundColor,
  backgroundLabel,
  hasLabel,        \* node -> BOOLEAN            (Set::hasLabel_)
  nodeLabel,       \* node -> U                  (Set::label_)
  outputBuffer,    \* voxel index -> U or Unwritten
  statistics,      \* Seq of [pixelCount_, inputLabel_]; C++ index i is i+1
  label,           \* the running label counter
  pc,              \* "pass1", "pass2", "done", "threw", "crashed"
  pos,             \* scan position w*width*height + v*width + u
  oobAccess,       \* TRUE once statistics[] was indexed past its size
  \* ---- convolve1d ----
  pixelType,       \* "float", "uchar" or "short": the template argument T
  buffer,          \* element index -> value of type T
  original,        \* the buffer as it was when convolve1d was called
  kernel,          \* Seq of float coefficients, C++ index k is k+1
  direction,       \* 0 = X, 1 = Y, 2 = Z
  slice,           \* the counter of convolve1d's loop (z or y)
  cpc,             \* "run", "done", "threw"
  \* ---- Convolution::Convolve and GaussianKernel1D ----
  sigmas,          \* Seq of the floats of the sigmas array, C++ index d is d+1
  directions,      \* Seq of the ints of the directions array, likewise
  pass,            \* the counter d of Convolve's loop
  gaussian,        \* the GaussianKernel1D built last: [radius, data]
  image,           \* what the data array holds: "nan" if some element
                   \* is NaN, else "inf" if some element is infinite,
                   \* else "finite"; "indeterminate" for an integer array
                   \* an undefined conversion has stored to
  gpc,             \* "start", "built", "loop", "done", "threw"
  \* ---- the threads of one convolve call ----
  threadCount,     \* omp_get_max_threads()
  data,            \* rank -> [inputRow, outputRow]: the ThreadData objects
  worker,          \* rank -> [v, at, u]: the row a thread is on, the loop
                   \* of the body it is in, and that loop's counter
  taken,           \* the rows v handed to a thread so far
  readers,         \* element index -> the threads that have read it
  writers,         \* element index -> the threads that have stored to it
  scratchUsers,    \* index into data -> the threads that have used it
  rpc              \* "run", "done"

setVars == <<parent, rank, error, cls, lastCall>>
ccVars  == <<width, height, depth, inputBuffer, backgroundColor,
             backgroundLabel, hasLabel, nodeLabel, outputBuffer, statistics,
             label, pc, pos, oobAccess>>
convVars == <<pixelType, buffer, original, kernel, direction, slice, cpc>>
gaussVars == <<sigmas, directions, pass, gaussian, image, gpc>>
rowVars  == <<threadCount, data, worker, taken, readers, writers,
              scratchUsers, rpc>>
restVars == <<gaussVars, rowVars>>

(***************************************************************************)
(* Bounds of the model.                                                    *)
(***************************************************************************)
NumNodes  == 4     \* nodes driven by SpecSet
MaxVoxels == 4     \* width*height*depth of the volumes of SpecCC
MaxT      == 2     \* voxel values are 0..MaxT
MaxU      == 4     \* std::numeric_limits<U>::max() of the label type
MaxElems  == 4     \* width*height*depth of the volumes of SpecConv

(***************************************************************************)
(* Program constants.                                                      *)
(***************************************************************************)
RANK_MAX  == 65535       \* std::numeric_limits<unsigned short>::max()

Nil       == -1          \* parent_ == 0
Unwritten == -1          \* an output cell the function has not stored to

(***************************************************************************)
(* Set<U>::find and Set<U>::unite.                                         *)
(***************************************************************************)

\* Faulty variant of find: returns the root but leaves the chain as it was.
RECURSIVE find_noCompress(_, _)
find_noCompress(par, n) ==
  IF par[n] = Nil
    THEN [parent |-> par, root |-> n]
    ELSE [parent |-> par, root |-> find_noCompress(par, par[n]).root]

\* Set::find on node n of the forest par: the forest after the call and the
\* node returned.  parent_ = parent_->find(); return parent_;
RECURSIVE find(_, _)
find(par, n) ==
  IF par[n] = Nil
    THEN [parent |-> par, root |-> n]
    ELSE LET r == find(par, par[n])
         IN  [parent |-> [r.parent EXCEPT ![n] = r.root], root |-> r.root]

\* Faulty variant of unite: links y itself, not y's root, under x's root.
unite_linksArgument(par, rnk, x, y) ==
  LET fx    == find(par, x)
      fy    == find(fx.parent, y)
      xRoot == fx.root
      yRoot == fy.root
      p     == fy.parent
  IN  IF rnk[xRoot] > rnk[yRoot]
        THEN [parent |-> [p EXCEPT ![y] = xRoot], rank |-> rnk, threw |-> FALSE]
      ELSE IF rnk[xRoot] < rnk[yRoot]
        THEN [parent |-> [p EXCEPT ![xRoot] = yRoot], rank |-> rnk, threw |-> FALSE]
      ELSE IF xRoot # yRoot
        THEN [parent |-> [p EXCEPT ![y] = xRoot],
              rank   |-> [rnk EXCEPT ![xRoot] = rnk[xRoot] + 1],
              threw  |-> FALSE]
      ELSE [parent |-> p, rank |-> rnk, threw |-> FALSE]

\* Faulty variant of unite: roots of equal rank are linked without the rank
\* of the new root being incremented.
unite_keepsRank(par, rnk, x, y) ==
  LET fx    == find(par, x)
      fy    == find(fx.parent, y)
      xRoot == fx.root
      yRoot == fy.root
      p     == fy.parent
  IN  IF rnk[xRoot] > rnk[yRoot]
        THEN [parent |-> [p EXCEPT ![yRoot] = xRoot], rank |-> rnk, threw |-> FALSE]
      ELSE IF rnk[xRoot] < rnk[yRoot]
        THEN [parent |-> [p EXCEPT ![xRoot] = yRoot], rank |-> rnk, threw |-> FALSE]
      ELSE IF xRoot # yRoot
        THEN [parent |-> [p EXCEPT ![yRoot] = xRoot], rank |-> rnk,
              threw |-> FALSE]
      ELSE [parent |-> p, rank |-> rnk, threw |-> FALSE]

\* Set::unite(x, y) on the forest (par, rnk): the forest after the call and
\* whether it threw "Connected components graph overflow.".
unite(par, rnk, x, y) ==
  LET fx    == find(par, x)
      fy    == find(fx.parent, y)
      xRoot == fx.root
      yRoot == fy.root
      p     == fy.parent
  IN  IF rnk[xRoot] > rnk[yRoot]
        THEN [parent |-> [p EXCEPT ![yRoot] = xRoot], rank |-> rnk, threw |-> FALSE]
      ELSE IF rnk[xRoot] < rnk[yRoot]
        THEN [parent |-> [p EXCEPT ![xRoot] = yRoot], rank |-> rnk, threw |-> FALSE]
      ELSE IF xRoot # yRoot
        THEN IF rnk[xRoot] = RANK_MAX
               THEN [parent |-> [p EXCEPT ![yRoot] = xRoot], rank |-> rnk,
                     threw |-> TRUE]
               ELSE [parent |-> [p EXCEPT ![yRoot] = xRoot],
                     rank   |-> [rnk EXCEPT ![xRoot] = (rnk[xRoot] + 1) % (RANK_MAX + 1)],
                     threw  |-> FALSE]
      ELSE [parent |-> p, rank |-> rnk, threw |-> FALSE]

\* The nodes on the parent chain from n up to and including its root.
RECURSIVE Chain(_, _)
Chain(par, n) == IF par[n] = Nil THEN {n} ELSE {n} \cup Chain(par, par[n])

\* The root that ends n's parent chain (no node is changed).
RECURSIVE RootOf(_, _)
RootOf(par, n) == IF par[n] = Nil THEN n ELSE RootOf(par, par[n])

Min(S) == CHOOSE m \in S : \A k \in S : m <= k

(***************************************************************************)
(* SpecSet: NumNodes zero-initialised nodes, any sequence of unite/find.   *)
(***************************************************************************)
Nodes == 0 .. NumNodes - 1

NoCall == [op |-> "none", n |-> Nil, m |-> Nil, result |-> Nil, chain |-> {}]

ConvIdle ==
  /\ pixelType = "" /\ buffer = <<>> /\ original = <<>> /\ kernel = <<>>
  /\ direction = 0 /\ slice = 0 /\ cpc = "idle"

NoKernel == [radius |-> 0, data |-> <<>>]

GaussIdle ==
  /\ sigmas = <<>> /\ directions = <<>> /\ pass = 0 /\ gaussian = NoKernel
  /\ image = "" /\ gpc = "idle"

RowsIdle ==
  /\ threadCount = 0 /\ data = <<>> /\ worker = <<>> /\ taken = {}
  /\ readers = <<>> /\ writers = <<>> /\ scratchUsers = <<>> /\ rpc = "idle"

RestIdle == GaussIdle /\ RowsIdle

CCRestIdle ==
  /\ inputBuffer = <<>> /\ backgroundColor = 0 /\ backgroundLabel = 0
  /\ hasLabel = <<>> /\ nodeLabel = <<>> /\ outputBuffer = <<>>
  /\ statistics = <<>> /\ label = 0 /\ pc = "idle" /\ pos = 0
  /\ oobAccess = FALSE

CCIdle ==
  /\ width = 0 /\ height = 0 /\ depth = 0
  /\ CCRestIdle

InitSet ==
  /\ parent = [n \in Nodes |-> Nil]
  /\ rank = [n \in Nodes |-> 0]
  /\ error = ""
  /\ cls = [n \in Nodes |-> n]
  /\ lastCall = NoCall
  /\ CCIdle
  /\ ConvIdle
  /\ RestIdle

\* s.find()
SetFind ==
  /\ error = ""
  /\ \E n \in Nodes :
       LET r == find(parent, n)
       IN  /\ parent' = r.parent
           /\ lastCall' = [op |-> "find", n |-> n, m |-> Nil, result |-> r.root,
                           chain |-> Chain(parent, n)]
  /\ UNCHANGED <<rank, error, cls>>
  /\ UNCHANGED <<ccVars, convVars, restVars>>

\* Set::unite(&x, &y)
SetUnite ==
  /\ error = ""
  /\ \E x \in Nodes, y \in Nodes :
       LET r == unite(parent, rank, x, y)
           c == Min({cls[x], cls[y]})
       IN  /\ parent' = r.parent
           /\ rank' = r.rank
           /\ error' = IF r.threw THEN "Connected components graph overflow." ELSE ""
           /\ cls' = [n \in Nodes |->
                        IF cls[n] = cls[x] \/ cls[n] = cls[y] THEN c ELSE cls[n]]
           /\ lastCall' = [op |-> "unite", n |-> x, m |-> y, result |-> Nil,
                           chain |-> {}]
  /\ UNCHANGED <<ccVars, convVars, restVars>>

NextSet == SetFind \/ SetUnite

vars == <<setVars, ccVars, convVars, gaussVars, rowVars>>

SpecSet == InitSet /\ [][NextSet]_vars

\* k parent links up from n (Nil once the chain has ended).
RECURSIVE Ancestor(_, _, _)
Ancestor(par, n, k) ==
  IF n = Nil \/ k = 0 THEN n ELSE Ancestor(par, par[n], k - 1)

\* Every parent chain ends in a root: the forest has no cycle.
WellFounded(par) ==
  \A n \in DOMAIN par : Ancestor(par, n, Cardinality(DOMAIN par)) = Nil

\* C7: after any sequence of unite calls with find calls interleaved,
\* find(a) == find(b) exactly when a and b are related by the equivalence
\* generated by the united pairs (nodes never united stay apart, union is
\* transitive).
C7_SameRootIffUnited ==
  /\ WellFounded(parent)
  /\ \A a \in Nodes, b \in Nodes :
       LET fa == find(parent, a)
           fb == find(fa.parent, b)
       IN  (fa.root = fb.root) <=> (cls[a] = cls[b])

\* C7 witness: a unite has just built a class of three nodes, joined only
\* through a shared member, while a fourth node was never united with them.
C7_Witness ==
  /\ lastCall.op = "unite"
  /\ \E a \in Nodes, b \in Nodes, c \in Nodes, d \in Nodes :
       /\ Cardinality({a, b, c, d}) = 4
       /\ cls[a] = cls[b] /\ cls[b] = cls[c] /\ cls[d] # cls[a]
       /\ RootOf(parent, a) = RootOf(parent, c)
       /\ RootOf(parent, d) # RootOf(parent, a)

\* C8: a find(n) step returns the root of n's tree, a node whose parent is
\* nil; afterwards every non-root node of the chain from n points directly
\* at that root, and nothing else changed: no node off the chain changed
\* parent, no rank changed, and every node keeps its root.
C8_FindStep ==
  lastCall'.op = "find" =>
    LET n  == lastCall'.n
        r  == lastCall'.result
        ch == Chain(parent, n)
    IN  /\ WellFounded(parent)
        /\ r = RootOf(parent, n)
        /\ parent'[r] = Nil
        /\ \A v \in ch \ {r} : parent'[v] = r
        /\ \A v \in Nodes \ ch : parent'[v] = parent[v]
        /\ rank' = rank
        /\ \A v \in Nodes : RootOf(parent', v) = RootOf(parent, v)

C8_FindCompressesPath == [][C8_FindStep]_vars

\* C8 witness: the last call was a find that started two links below the
\* root, and the node it started from now points at the root it returned.
C8_Witness ==
  /\ lastCall.op = "find"
  /\ Cardinality(lastCall.chain) >= 3
  /\ parent[lastCall.n] = lastCall.result
  /\ parent[lastCall.result] = Nil

(***************************************************************************)
(* findConnectedComponents3d<T, U>.  The volume is laid out as the wrapper *)
(* Find3d passes it: voxel (u, v, w) is element w*width*height + v*width   *)
(* + u of both buffers, the same index as its node in components[].        *)
(***************************************************************************)
T == 0 .. MaxT
U == 0 .. MaxU

\* Face connectivity: back, left, up.
N  == 3
du == << 0, -1,  0>>
dv == << 0,  0, -1>>
dw == <<-1,  0,  0>>

VoxelCount == width * height * depth
Voxels     == 0 .. VoxelCount - 1

Uof(p) == p % width
Vof(p) == (p \div width) % height
Wof(p) == p \div (width * height)

\* "in range?" of the pass-1 neighbour loop.
InRange(u, v, w) ==
  /\ u >= 0 /\ u < width /\ v >= 0 /\ v < height /\ w >= 0 /\ w < depth

\* Faulty variant of the neighbour loop: stops at the first neighbour it unites
\* with (the source warns "DO NOT bail out here").
RECURSIVE uniteNeighbours_bailOut(_, _, _)
uniteNeighbours_bailOut(f, p, i) ==
  IF i > N \/ f.threw THEN f
  ELSE LET u == Uof(p) + du[i]
           v == Vof(p) + dv[i]
           w == Wof(p) + dw[i]
           q == w * width * height + v * width + u
       IN  IF InRange(u, v, w) /\ inputBuffer[q] = inputBuffer[p]
             THEN unite(f.parent, f.rank, p, q)
             ELSE uniteNeighbours_bailOut(f, p, i + 1)

\* The loop "for (int i = 0; i < N; i++)" of pass 1 for the foreground
\* voxel p, from neighbour i on, on the forest f = [parent, rank, threw].
RECURSIVE uniteNeighbours(_, _, _)
uniteNeighbours(f, p, i) ==
  IF i > N \/ f.threw THEN f
  ELSE LET u == Uof(p) + du[i]
           v == Vof(p) + dv[i]
           w == Wof(p) + dw[i]
           q == w * width * height + v * width + u
       IN  IF InRange(u, v, w) /\ inputBuffer[q] = inputBuffer[p]
             THEN uniteNeighbours(unite(f.parent, f.rank, p, q), p, i + 1)
             ELSE uniteNeighbours(f, p, i + 1)

\* The shapes and volumes SpecCC starts from.
Shapes ==
  {s \in (1 .. MaxVoxels) \X (1 .. MaxVoxels) \X (1 .. MaxVoxels) :
     s[1] * s[2] * s[3] <= MaxVoxels}

SetIdle == cls = <<>> /\ lastCall = NoCall

InitCC ==
  /\ \E s \in Shapes :
       /\ width = s[1] /\ height = s[2] /\ depth = s[3]
       /\ inputBuffer \in [0 .. s[1] * s[2] * s[3] - 1 -> T]
       /\ outputBuffer = [p \in 0 .. s[1] * s[2] * s[3] - 1 |-> Unwritten]
       \* std::vector<unsigned char> components_(..., 0): all nodes zeroed
       /\ parent = [p \in 0 .. s[1] * s[2] * s[3] - 1 |-> Nil]
       /\ rank = [p \in 0 .. s[1] * s[2] * s[3] - 1 |-> 0]
       /\ hasLabel = [p \in 0 .. s[1] * s[2] * s[3] - 1 |-> FALSE]
       /\ nodeLabel = [p \in 0 .. s[1] * s[2] * s[3] - 1 |-> 0]
  /\ backgroundColor \in T
  /\ backgroundLabel \in U
  /\ statistics = <<>>
  /\ label = 0
  /\ pc = "pass1"
  /\ pos = 0
  /\ oobAccess = FALSE
  /\ error = ""
  /\ SetIdle
  /\ ConvIdle
  /\ RestIdle

\* Pass 1, one voxel of the scan (the body of "for u").
Pass1Voxel ==
  /\ pc = "pass1"
  /\ pos < VoxelCount
  /\ LET f0 == [parent |-> parent, rank |-> rank, threw |-> FALSE]
         f  == IF inputBuffer[pos] # backgroundColor
                 THEN uniteNeighbours(f0, pos, 1)
                 ELSE f0
     IN  /\ parent' = f.parent
         /\ rank' = f.rank
         /\ IF f.threw
              THEN /\ pc' = "threw"
                   /\ error' = "Connected components graph overflow."
                   /\ pos' = pos
              ELSE /\ pc' = pc
                   /\ error' = error
                   /\ pos' = pos + 1
  /\ UNCHANGED <<width, height, depth, inputBuffer, backgroundColor,
                 backgroundLabel, hasLabel, nodeLabel, outputBuffer,
                 statistics, label, oobAccess, cls, lastCall>>
  /\ UNCHANGED <<convVars, restVars>>

\* Between the passes: "U label = 0; if (label == backgroundLabel) ...".
BeginPass2 ==
  /\ pc = "pass1"
  /\ pos = VoxelCount
  /\ IF 0 = backgroundLabel
       THEN /\ label' = (0 + 1) % (MaxU + 1)
            /\ statistics' = <<[pixelCount_ |-> 0, inputLabel_ |-> backgroundColor]>>
       ELSE /\ label' = 0
            /\ statistics' = <<>>
  /\ pc' = "pass2"
  /\ pos' = 0
  /\ UNCHANGED <<width, height, depth, inputBuffer, backgroundColor,
                 backgroundLabel, hasLabel, nodeLabel, outputBuffer,
                 oobAccess, parent, rank, error, cls, lastCall>>
  /\ UNCHANGED <<convVars, restVars>>

TooMany == "Too many components during connected component analysis."

NewEntry(color) == [pixelCount_ |-> 0, inputLabel_ |-> color]

\* Faulty variant of takeLabel: the counter always advances by two, as if
\* every label were followed by the background label.
takeLabel_leavesGap(lbl, stats, color) ==
  IF lbl = MaxU
    THEN [label |-> lbl, statistics |-> stats, threw |-> TRUE]
    ELSE LET l1 == (lbl + 1) % (MaxU + 1)
             s1 == Append(stats, NewEntry(color))
         IN  [label |-> (l1 + 1) % (MaxU + 1),
              statistics |-> Append(s1, NewEntry(backgroundColor)),
              threw |-> FALSE]

\* What follows "root->label_ = label; root->hasLabel_ = true;": the
\* overflow checks, label++, and the push_back calls, for a component whose
\* first voxel has value color.
takeLabel(lbl, stats, color) ==
  IF lbl = MaxU
    THEN [label |-> lbl, statistics |-> stats, threw |-> TRUE]
    ELSE LET l1 == (lbl + 1) % (MaxU + 1)
             s1 == Append(stats, NewEntry(color))
         IN  IF l1 = backgroundLabel
               THEN IF l1 = MaxU
                      THEN [label |-> l1, statistics |-> s1, threw |-> TRUE]
                      ELSE [label |-> (l1 + 1) % (MaxU + 1),
                            statistics |-> Append(s1, NewEntry(backgroundColor)),
                            threw |-> FALSE]
               ELSE [label |-> l1, statistics |-> s1, threw |-> FALSE]

\* Faulty variant of labelVoxel: background voxels are given label 0 whatever the
\* reserved background label is.
labelVoxel_backgroundZero(p) ==
  IF inputBuffer[p] = backgroundColor
    THEN [parent |-> parent, hasLabel |-> hasLabel, nodeLabel |-> nodeLabel,
          label |-> label, statistics |-> statistics, threw |-> FALSE,
          written |-> 0]
    ELSE LET fr   == find(parent, p)
             root == fr.root
         IN  IF hasLabel[root] = FALSE
               THEN LET t == takeLabel(label, statistics, inputBuffer[p])
                    IN  [parent |-> fr.parent,
                         hasLabel |-> [hasLabel EXCEPT ![root] = TRUE],
                         nodeLabel |-> [nodeLabel EXCEPT ![root] = label],
                         label |-> t.label, statistics |-> t.statistics,
                         threw |-> t.threw, written |-> label]
               ELSE [parent |-> fr.parent, hasLabel |-> hasLabel,
                     nodeLabel |-> nodeLabel, label |-> label,
                     statistics |-> statistics, threw |-> FALSE,
                     written |-> nodeLabel[root]]

\* The body of pass 2 for voxel p up to and including "*p = ...": the node
\* and counter state after it, whether it threw, and the label it stores to
\* the output (meaningful when it did not throw).
labelVoxel(p) ==
  IF inputBuffer[p] = backgroundColor
    THEN [parent |-> parent, hasLabel |-> hasLabel, nodeLabel |-> nodeLabel,
          label |-> label, statistics |-> statistics, threw |-> FALSE,
          written |-> backgroundLabel]
    ELSE LET fr   == find(parent, p)
             root == fr.root
         IN  IF hasLabel[root] = FALSE
               THEN LET t == takeLabel(label, statistics, inputBuffer[p])
                    IN  [parent |-> fr.parent,
                         hasLabel |-> [hasLabel EXCEPT ![root] = TRUE],
                         nodeLabel |-> [nodeLabel EXCEPT ![root] = label],
                         label |-> t.label, statistics |-> t.statistics,
                         threw |-> t.threw, written |-> label]
               ELSE [parent |-> fr.parent, hasLabel |-> hasLabel,
                     nodeLabel |-> nodeLabel, label |-> label,
                     statistics |-> statistics, threw |-> FALSE,
                     written |-> nodeLabel[root]]

\* Faulty variant of countPixel: only foreground entries are counted.
countPixel_skipsBackground(stats, l) ==
  IF l = backgroundLabel THEN stats
  ELSE [stats EXCEPT ![l + 1].pixelCount_ = stats[l + 1].pixelCount_ + 1]

\* "statistics[*p].pixelCount_++" for an index inside the table.  The count
\* never exceeds width*height*depth, an int, so the 32-bit field cannot wrap.
countPixel(stats, l) ==
  [stats EXCEPT ![l + 1].pixelCount_ = stats[l + 1].pixelCount_ + 1]

AfterVoxel == IF pos + 1 = VoxelCount THEN "done" ELSE "pass2"

\* Pass 2, one voxel of the scan, the index into statistics inside the table.
Pass2Voxel ==
  /\ pc = "pass2"
  /\ LET r == labelVoxel(pos)
     IN  /\ ~r.threw
         /\ r.written < Len(r.statistics)
         /\ parent' = r.parent
         /\ hasLabel' = r.hasLabel
         /\ nodeLabel' = r.nodeLabel
         /\ label' = r.label
         /\ outputBuffer' = [outputBuffer EXCEPT ![pos] = r.written]
         /\ statistics' = countPixel(r.statistics, r.written)
  /\ pc' = AfterVoxel
  /\ pos' = pos + 1
  /\ UNCHANGED <<width, height, depth, inputBuffer, backgroundColor,
                 backgroundLabel, oobAccess, rank, error, cls, lastCall>>
  /\ UNCHANGED <<convVars, restVars>>

\* Pass 2, a voxel at which the label counter cannot advance: the function
\* throws after it has set root->label_ and root->hasLabel_.
Pass2Throws ==
  /\ pc = "pass2"
  /\ LET r == labelVoxel(pos)
     IN  /\ r.threw
         /\ parent' = r.parent
         /\ hasLabel' = r.hasLabel
         /\ nodeLabel' = r.nodeLabel
         /\ label' = r.label
         /\ statistics' = r.statistics
  /\ pc' = "threw"
  /\ error' = TooMany
  /\ UNCHANGED <<width, height, depth, inputBuffer, backgroundColor,
                 backgroundLabel, outputBuffer, pos, oobAccess, rank, cls,
                 lastCall>>
  /\ UNCHANGED <<convVars, restVars>>

\* Pass 2, a voxel whose label indexes statistics at or past its size:
\* operator[] is unchecked, so the increment is undefined behaviour.  The
\* build either faults, or the store lands outside the elements of the table
\* and the scan goes on with the table as it was.
Pass2OutOfBounds ==
  /\ pc = "pass2"
  /\ LET r == labelVoxel(pos)
     IN  /\ ~r.threw
         /\ r.written >= Len(r.statistics)
         /\ parent' = r.parent
         /\ hasLabel' = r.hasLabel
         /\ nodeLabel' = r.nodeLabel
         /\ label' = r.label
         /\ outputBuffer' = [outputBuffer EXCEPT ![pos] = r.written]
         /\ statistics' = r.statistics
  /\ \/ pc' = "crashed" /\ pos' = pos
     \/ pc' = AfterVoxel /\ pos' = pos + 1
  /\ oobAccess' = TRUE
  /\ UNCHANGED <<width, height, depth, inputBuffer, backgroundColor,
                 backgroundLabel, rank, error, cls, lastCall>>
  /\ UNCHANGED <<convVars, restVars>>

NextCC == Pass1Voxel \/ BeginPass2 \/ Pass2Voxel \/ Pass2Throws \/ Pass2OutOfBounds

SpecCC == InitCC /\ [][NextCC]_vars

(***************************************************************************)
(* Properties of findConnectedComponents3d.                                *)
(***************************************************************************)
Abs(i) == IF i < 0 THEN -i ELSE i

\* p and q differ by one step along exactly one of x, y, z.
FaceAdjacent(p, q) ==
  Abs(Uof(p) - Uof(q)) + Abs(Vof(p) - Vof(q)) + Abs(Wof(p) - Wof(q)) = 1

\* The voxels joined to those of S by a path of face-adjacent voxels that
\* all carry the same input value.
RECURSIVE Grow(_)
Grow(S) ==
  LET S2 == S \cup {q \in Voxels :
                      \E p \in S : FaceAdjacent(p, q)
                                   /\ inputBuffer[q] = inputBuffer[p]}
  IN  IF S2 = S THEN S ELSE Grow(S2)

ComponentOf(p) == Grow({p})

Foreground == {p \in Voxels : inputBuffer[p] # backgroundColor}
Background == {p \in Voxels : inputBuffer[p] = backgroundColor}

Components == {ComponentOf(p) : p \in Foreground}

LabelsWritten == {outputBuffer[p] : p \in Voxels}

Max(S) == CHOOSE m \in S : \A k \in S : m >= k

RECURSIVE SumCounts(_)
SumCounts(stats) ==
  IF stats = <<>> THEN 0
  ELSE stats[1].pixelCount_ + SumCounts(Tail(stats))

\* C1: when the function completes, two foreground voxels have the same
\* output label exactly when a face-adjacent path of equal-valued voxels
\* joins them.
C1_SameLabelIffFaceConnected ==
  pc = "done" =>
    \A a \in Foreground, b \in Foreground :
      (outputBuffer[a] = outputBuffer[b]) <=> (b \in ComponentOf(a))

\* C1 witness: a completed run in which two foreground voxels that are not
\* face-adjacent share a label (other voxels join them), and two
\* face-adjacent foreground voxels of different values have different labels.
C1_Witness ==
  /\ pc = "done"
  /\ \E a \in Foreground, b \in Foreground :
       /\ a # b /\ ~FaceAdjacent(a, b)
       /\ outputBuffer[a] = outputBuffer[b]
  /\ \E a \in Foreground, b \in Foreground :
       /\ FaceAdjacent(a, b)
       /\ inputBuffer[a] # inputBuffer[b]
       /\ outputBuffer[a] # outputBuffer[b]

\* C2: when the function completes, every voxel whose input value is the
\* background value carries the reserved background label.
C2_BackgroundGetsBackgroundLabel ==
  pc = "done" =>
    \A p \in Background : outputBuffer[p] = backgroundLabel

\* C2 witness: a completed run, free of any out-of-range access, with a
\* non-zero background label, background voxels and foreground voxels.
C2_Witness ==
  /\ pc = "done" /\ ~oobAccess
  /\ backgroundLabel # 0
  /\ Background # {} /\ Foreground # {}
  /\ \A p \in Background : outputBuffer[p] = backgroundLabel

\* C3: with background label 0, the returned table has length (largest
\* label written or reserved) + 1 and its pixel counts sum to W*H*D.
C3_LengthAndTotalCount ==
  (pc = "done" /\ backgroundLabel = 0) =>
    /\ Len(statistics) = Max(LabelsWritten \cup {backgroundLabel}) + 1
    /\ SumCounts(statistics) = width * height * depth

\* C3 witness: a completed run with background label 0 on a volume that has
\* no background voxel and more than one component.
C3_Witness ==
  /\ pc = "done" /\ backgroundLabel = 0
  /\ Background = {}
  /\ Cardinality(Components) >= 2
  /\ Len(statistics) = Cardinality(Components) + 1

\* C4 as claimed: when the function completes, every label l in the output
\* has an entry whose pixelCount is the number of voxels labelled l, whose
\* inputLabel is the input value of every voxel labelled l for a foreground
\* label, and is the background value for the background label.
C4_Original ==
  pc = "done" =>
    \A l \in LabelsWritten :
      /\ l < Len(statistics)
      /\ statistics[l + 1].pixelCount_
           = Cardinality({p \in Voxels : outputBuffer[p] = l})
      /\ \A p \in Foreground :
           outputBuffer[p] = l => statistics[l + 1].inputLabel_ = inputBuffer[p]
      /\ l = backgroundLabel => statistics[l + 1].inputLabel_ = backgroundColor

\* The largest label a volume with k foreground components needs when
\* labels are taken consecutively from 0 and skip the background label.
LargestLabelNeeded(k) ==
  IF k = 0 THEN -1
  ELSE IF k - 1 < backgroundLabel THEN k - 1 ELSE k

\* C5 as claimed: the function fails with TooManyComponents only when the
\* volume needs a label above max(U), and a volume that needs one never
\* completes.
C5_Original ==
  /\ (pc = "threw" /\ error = TooMany)
       => LargestLabelNeeded(Cardinality(Components)) > MaxU
  /\ pc = "done" => LargestLabelNeeded(Cardinality(Components)) <= MaxU

\* C6 as claimed: for every background label, a volume without foreground
\* runs to completion and returns exactly the background entry with
\* pixelCount W*H*D and inputLabel b; and every returned table holds the
\* background entry at index L_bg.
C6_Original ==
  /\ Foreground = {} => pc \notin {"crashed", "threw"}
  /\ (pc = "done" /\ Foreground = {})
       => statistics = <<[pixelCount_ |-> width * height * depth,
                          inputLabel_ |-> backgroundColor]>>
  /\ pc = "done"
       => /\ backgroundLabel < Len(statistics)
          /\ statistics[backgroundLabel + 1].inputLabel_ = backgroundColor

(***************************************************************************)
(* convolution.h.  A float is modelled in fixed point: the integer n       *)
(* stands for n / FRAC.  The buffers and kernels SpecConv starts from are  *)
(* chosen so that every product and sum formed is a multiple of 1/FRAC of  *)
(* small magnitude, which float32 represents exactly.  Buffers are indexed *)
(* by element: hop, stride and leap are the byte offsets the wrapper       *)
(* passes divided by sizeof(T).                                            *)
(***************************************************************************)
FRAC      == 4
UCHAR_MAX == 255
SHRT_MIN  == -32768
SHRT_MAX  == 32767

PixelTypes == {"float", "uchar", "short"}

\* float * float
FMul(a, b) == (a * b) \div FRAC

\* Conversion of a float to an integer type: the fraction is discarded.
Truncate(x) == IF x >= 0 THEN x \div FRAC ELSE -((-x) \div FRAC)

\* readerT<T>
readerT(type, v) == IF type = "float" THEN v ELSE v * FRAC

\* writerT<T>
writerT(type, x) ==
  IF type = "float" THEN x
  ELSE IF type = "uchar"
    THEN IF x <= 0 THEN 0
         ELSE IF x > UCHAR_MAX * FRAC THEN UCHAR_MAX
         ELSE Truncate(x + FRAC \div 2)
  ELSE IF x <= SHRT_MIN * FRAC THEN SHRT_MIN
       ELSE IF x > SHRT_MAX * FRAC THEN SHRT_MAX
       ELSE Truncate(x + FRAC \div 2)

KernelRadius(kern) == (Len(kern) - 1) \div 2

\* The inner loop of convolve_reference: sum += kernel[k] * i[k], k = from..2r.
RECURSIVE kernelSum(_, _, _, _, _)
kernelSum(input, kern, u, k, sum) ==
  IF k > Len(kern) - 1 THEN sum
  ELSE kernelSum(input, kern, u, k + 1, sum + FMul(kern[k + 1], input[u + k]))

\* convolve_reference(input, width, kernel, kernelRadius, output): output.
convolve_reference(input, w, kern, kernelRadius) ==
  [u \in 0 .. w - 2 * kernelRadius - 1 |-> kernelSum(input, kern, u, 0, 0)]

\* Faulty variant of mirrorEdges: reflects about the end samples without repeating
\* them.
RECURSIVE mirrorEdges_noRepeat(_, _, _, _)
mirrorEdges_noRepeat(row, w, r, u) ==
  IF u >= r THEN row
  ELSE LET r1 == [row EXCEPT ![r - 1 - u] = row[r + u + 1]]
           r2 == [r1 EXCEPT ![r + w + u] = r1[r + w - 2 - u]]
       IN  mirrorEdges_noRepeat(r2, w, r, u + 1)

\* The loop "mirror edges" of convolve, from iteration u on.
RECURSIVE mirrorEdges(_, _, _, _)
mirrorEdges(row, w, r, u) ==
  IF u >= r THEN row
  ELSE LET r1 == [row EXCEPT ![r - 1 - u] = row[r + u]]
           r2 == [r1 EXCEPT ![r + w + u] = r1[r + w - 1 - u]]
       IN  mirrorEdges(r2, w, r, u + 1)

\* The element "q0 + u * hop" of row v, q0 = buffer + v * stride, that the
\* gather loop reads into inputRow[kernelRadius + u] and the write-back loop
\* stores outputRow[u] to.
elementAt(base, hop, stride, v, u) == base + v * stride + u * hop

\* The body of convolve's loop for row v: gather, mirror, convolve, write
\* back.  Every cell of the scratch row is stored to before it is read, so
\* what an earlier row left in it does not matter; it starts as the
\* constructor leaves it, zeroed.
convolveRow(type, w, buf, base, hop, stride, kern, r, v) ==
  LET gathered == [i \in 0 .. w + 2 * r - 1 |->
                     IF i >= r /\ i < r + w
                       THEN readerT(type, buf[elementAt(base, hop, stride, v, i - r)])
                       ELSE 0]
      inputRow == mirrorEdges(gathered, w, r, 0)
      outputRow == convolve_reference(inputRow, w + 2 * r, kern, r)
  IN  [e \in DOMAIN buf |->
         IF \E u \in 0 .. w - 1 : e = elementAt(base, hop, stride, v, u)
           THEN writerT(type, outputRow[CHOOSE u \in 0 .. w - 1 :
                                          e = elementAt(base, hop, stride, v, u)])
           ELSE buf[e]]

\* convolve<T>(width, height, buffer, hop, stride, kernel, kernelRadius), the
\* rows taken from v on.  The rows are disjoint, so the order in which the
\* threads take them does not show in the result.
RECURSIVE convolve(_, _, _, _, _, _, _, _, _, _)
convolve(type, w, h, buf, base, hop, stride, kern, r, v) ==
  IF v >= h THEN buf
  ELSE convolve(type, w, h,
                convolveRow(type, w, buf, base, hop, stride, kern, r, v),
                base, hop, stride, kern, r, v + 1)

\* The offsets Convolution::Convolve passes, in elements.
hop    == 1
stride == width
leap   == width * height

Samples(type) ==
  IF type = "float" THEN {-3 * FRAC, 10 * FRAC, 20 * FRAC, 30 * FRAC, 40 * FRAC}
  ELSE IF type = "uchar" THEN {0, 1, 200, UCHAR_MAX}
  ELSE {SHRT_MIN, -3, 0, 7, SHRT_MAX}

\* 1.0; 0.25, 0.5, 0.25; 0.75, 0.25, 0; 0.25, 0.25, 0, 0.25, 0.25
Kernels == {<<FRAC>>, <<1, 2, 1>>, <<3, 1, 0>>, <<1, 1, 0, 1, 1>>}

ConvShapes ==
  {s \in (1 .. MaxElems) \X (1 .. MaxElems) \X (1 .. MaxElems) :
     s[1] * s[2] * s[3] <= MaxElems}

InitConv ==
  /\ \E s \in ConvShapes :
       /\ width = s[1] /\ height = s[2] /\ depth = s[3]
       /\ pixelType \in PixelTypes
       /\ buffer \in [0 .. s[1] * s[2] * s[3] - 1 -> Samples(pixelType)]
  /\ original = buffer
  /\ kernel \in Kernels
  /\ direction \in 0 .. 3
  /\ slice = 0
  /\ cpc = "run"
  /\ error = ""
  /\ parent = <<>> /\ rank = <<>>
  /\ SetIdle
  /\ CCRestIdle
  /\ RestIdle

\* The number of convolve calls convolve1d makes for the direction.
SliceCount == IF direction = 2 THEN height ELSE depth

\* Faulty variant of sliceCall: direction 1 is swept as direction 0 is.
sliceCall_rowsForColumns(d, s) ==
  IF d = 2
    THEN [w |-> depth, h |-> width, base |-> s * stride, hop |-> leap,
          stride |-> hop]
    ELSE [w |-> width, h |-> height, base |-> s * leap, hop |-> hop,
          stride |-> stride]

\* The arguments of the convolve call that iteration s of the loop of case d
\* makes: the row length, the row count, the first element, and the offsets
\* between the elements of a row and between rows.
sliceCall(d, s) ==
  IF d = 0
    THEN [w |-> width, h |-> height, base |-> s * leap, hop |-> hop,
          stride |-> stride]
  ELSE IF d = 1
    THEN [w |-> height, h |-> width, base |-> s * leap, hop |-> stride,
          stride |-> hop]
  ELSE [w |-> depth, h |-> width, base |-> s * stride, hop |-> leap,
        stride |-> hop]

\* convolve1d, one iteration of the loop of its case 0, 1 or 2.
Convolve1dSlice ==
  /\ cpc = "run"
  /\ direction \in 0 .. 2
  /\ slice < SliceCount
  /\ LET r == KernelRadius(kernel)
         c == sliceCall(direction, slice)
     IN  buffer' = convolve(pixelType, c.w, c.h, buffer, c.base, c.hop,
                            c.stride, kernel, r, 0)
  /\ slice' = slice + 1
  /\ cpc' = IF slice + 1 = SliceCount THEN "done" ELSE "run"
  /\ UNCHANGED <<pixelType, original, kernel, direction>>
  /\ UNCHANGED <<setVars, ccVars, restVars>>

\* convolve1d, "default: throw std::exception(...)".
Convolve1dBadDirection ==
  /\ cpc = "run"
  /\ direction \notin 0 .. 2
  /\ cpc' = "threw"
  /\ error' = "Direction was out of range."
  /\ UNCHANGED <<pixelType, buffer, original, kernel, direction, slice>>
  /\ UNCHANGED <<parent, rank, cls, lastCall>>
  /\ UNCHANGED <<ccVars, restVars>>

NextConv == Convolve1dSlice \/ Convolve1dBadDirection

SpecConv == InitConv /\ [][NextConv]_vars

(***************************************************************************)
(* Properties of the convolver.                                            *)
(***************************************************************************)
Elements == DOMAIN buffer

\* The coordinate of element p along the swept axis, the extent of that
\* axis, and the element of p's line that has coordinate j.
Coord(p)    == IF direction = 0 THEN Uof(p)
               ELSE IF direction = 1 THEN Vof(p) ELSE Wof(p)
Extent      == IF direction = 0 THEN width
               ELSE IF direction = 1 THEN height ELSE depth
Along(p, j) == p + (j - Coord(p)) * (IF direction = 0 THEN hop
                                     ELSE IF direction = 1 THEN stride ELSE leap)

\* Extension of a row of n samples past its ends by reflection about the
\* end samples, which are not repeated: ... 2 1 | 0 1 2 ... n-1 | n-2 ...
ReflectIndex(j, n) ==
  IF n = 1 THEN 0
  ELSE LET t == j % (2 * n - 2) IN IF t < n THEN t ELSE 2 * n - 2 - t

\* Extension by reflection about the edges of the row, which repeats the
\* end samples: ... 1 0 | 0 1 2 ... n-1 | n-1 n-2 ...
SymmetricIndex(j, n) ==
  LET t == j % (2 * n) IN IF t < n THEN t ELSE 2 * n - 1 - t

RECURSIVE SumSeq(_)
SumSeq(q) == IF q = <<>> THEN 0 ELSE q[1] + SumSeq(Tail(q))

\* The reference convolution at element p of the extension of p's line of
\* the original buffer, the extension given by Index; written back as T.
ConvolvedExtension(p, Index(_, _)) ==
  LET r == KernelRadius(kernel)
  IN  writerT(pixelType,
        SumSeq([k \in 1 .. Len(kernel) |->
                  FMul(kernel[k],
                       readerT(pixelType,
                               original[Along(p, Index(Coord(p) + (k - 1) - r,
                                                       Extent))]))]))

IsRowExample ==
  /\ pixelType = "float" /\ direction = 0
  /\ width = 4 /\ height = 1 /\ depth = 1
  /\ original = [e \in 0 .. 3 |-> (10 + 10 * e) * FRAC]
  /\ kernel = <<1, 2, 1>>

\* C9 as claimed: the result is the reference convolution of the row
\* extended by reflection that does not repeat the end samples; the row
\* 10, 20, 30, 40 under 0.25, 0.5, 0.25 becomes 15, 20, 30, 35.
C9_Original ==
  cpc = "done" =>
    /\ \A p \in Elements : buffer[p] = ConvolvedExtension(p, ReflectIndex)
    /\ IsRowExample =>
         buffer = (0 :> 15 * FRAC @@ 1 :> 20 * FRAC @@ 2 :> 30 * FRAC
                     @@ 3 :> 35 * FRAC)

\* C9 amended: the result is the reference convolution of the row extended
\* by reflection about its edges, the end samples repeated; the row
\* 10, 20, 30, 40 under 0.25, 0.5, 0.25 becomes 12.5, 20, 30, 37.5.
C9_MirrorRepeatsEndSample ==
  cpc = "done" =>
    /\ \A p \in Elements : buffer[p] = ConvolvedExtension(p, SymmetricIndex)
    /\ IsRowExample =>
         buffer = (0 :> 50 @@ 1 :> 20 * FRAC @@ 2 :> 30 * FRAC @@ 3 :> 150)

\* C9 witness: the row 10, 20, 30, 40 has been convolved with
\* 0.25, 0.5, 0.25 and reads 12.5, 20, 30, 37.5.
C9_Witness ==
  /\ cpc = "done"
  /\ IsRowExample
  /\ buffer = (0 :> 50 @@ 1 :> 80 @@ 2 :> 120 @@ 3 :> 150)

\* C10 as claimed: convolve1d with the kernel [1] along any axis leaves
\* every element as it was, for float, unsigned char and short; that is,
\* write(read(v)) = v.
C10_Original ==
  (cpc = "done" /\ kernel = <<FRAC>>) =>
    /\ buffer = original
    /\ \A p \in Elements :
         writerT(pixelType, readerT(pixelType, original[p])) = original[p]

\* The message of the kernel size check of the SIMD convolver, which the
\* row convolver does not construct.
KernelTooLarge == "Kernel too big for image."

\* C11 as claimed: a convolve1d call whose kernel length 2r+1 is at least
\* the extent of the swept axis (W for X, H for Y, D for Z) fails with
\* KernelTooLarge and writes nothing; no slice of it is ever convolved.
C11_Original ==
  (direction \in 0 .. 2 /\ Len(kernel) >= Extent) =>
    /\ slice = 0
    /\ buffer = original
    /\ cpc # "done"
    /\ cpc = "threw" => error = KernelTooLarge

\* C13 as claimed: in pass 2, for every volume, background value and
\* reserved background label, the index of each access statistics[label] is
\* strictly smaller than the length of the table at that moment: no
\* access outside the table has happened, and the next voxel's access will
\* not be one.
C13_Original ==
  /\ ~oobAccess
  /\ (pc = "pass2" /\ ~labelVoxel(pos).threw) =>
       labelVoxel(pos).written < Len(labelVoxel(pos).statistics)

\* The first voxel, in scan order, of the component of p.
FirstVoxel(p) == Min(ComponentOf(p))

\* C17: with background label 0, when the function completes on a volume
\* with K foreground components, the labels of the foreground voxels are
\* exactly 1..K, none is 0, and a component whose first voxel comes earlier
\* in scan order has the smaller label; the row [2, 2, 0, 1] with
\* background value 0 yields [1, 1, 0, 2] (the labels do not depend on the
\* values, so this is the row [5, 5, 0, 7] of the claim).
C17_LabelsInScanOrder ==
  (pc = "done" /\ backgroundLabel = 0) =>
    /\ {outputBuffer[p] : p \in Foreground} = 1 .. Cardinality(Components)
    /\ \A p \in Foreground : outputBuffer[p] # 0
    /\ \A p \in Foreground, q \in Foreground :
         FirstVoxel(p) < FirstVoxel(q) => outputBuffer[p] < outputBuffer[q]
    /\ (/\ width = 4 /\ height = 1 /\ depth = 1 /\ backgroundColor = 0
        /\ inputBuffer = (0 :> 2 @@ 1 :> 2 @@ 2 :> 0 @@ 3 :> 1)) =>
         outputBuffer = (0 :> 1 @@ 1 :> 1 @@ 2 :> 0 @@ 3 :> 2)

\* C17 witness: the row [2, 2, 0, 1] with background value 0 and background
\* label 0 has been labelled [1, 1, 0, 2]: two components, the earlier one
\* of two voxels, separated by a background voxel.
C17_Witness ==
  /\ pc = "done" /\ backgroundLabel = 0 /\ backgroundColor = 0
  /\ width = 4 /\ height = 1 /\ depth = 1
  /\ inputBuffer = (0 :> 2 @@ 1 :> 2 @@ 2 :> 0 @@ 3 :> 1)
  /\ outputBuffer = (0 :> 1 @@ 1 :> 1 @@ 2 :> 0 @@ 3 :> 2)
  /\ Cardinality(Components) = 2

\* The number of parent links from m up to its ancestor n.
RECURSIVE Depth(_, _, _)
Depth(par, m, n) == IF m = n THEN 0 ELSE 1 + Depth(par, par[m], n)

\* The height of the subtree rooted at n: the longest chain that ends at n.
Height(par, n) ==
  Max({Depth(par, m, n) : m \in {k \in DOMAIN par : n \in Chain(par, k)}})

\* In this forest every rank bounds the height of its node's subtree, and
\* a non-root node has a smaller rank than its parent.
RanksBoundHeights ==
  /\ WellFounded(parent)
  /\ \A n \in Nodes : Height(parent, n) <= rank[n]
  /\ \A n \in Nodes : parent[n] # Nil => rank[n] < rank[parent[n]]

\* No rank is smaller after the step than before it.
RanksNeverDecrease == \A n \in Nodes : rank'[n] >= rank[n]

\* C16: in every forest reachable from zero-initialised nodes by unite and
\* find calls, the rank of each node is at least the height of the subtree
\* rooted at it, the rank of a non-root node is strictly smaller than the
\* rank of its parent, and no call decreases a rank.
C16_RankBoundsHeight == []RanksBoundHeights /\ [][RanksNeverDecrease]_vars

\* C16 witness: a find has just compressed a path under a root of rank 2,
\* so that the root's subtree has height 1, below its rank, and the root has
\* a child of rank 1 and a child of rank 0.
C16_Witness ==
  /\ lastCall.op = "find"
  /\ \E n \in Nodes :
       /\ parent[n] = Nil /\ rank[n] = 2 /\ Height(parent, n) = 1
       /\ \E a \in Nodes, b \in Nodes :
            /\ parent[a] = n /\ parent[b] = n
            /\ rank[a] = 1 /\ rank[b] = 0

\* The accesses of convolve1d: iteration s of the loop, row v of its convolve
\* call, sample u of the row.
Accesses ==
  UNION {{s} \X (0 .. sliceCall(direction, s).h - 1)
             \X (0 .. sliceCall(direction, s).w - 1) : s \in 0 .. SliceCount - 1}

\* The element access t reads and writes.
Accessed(t) ==
  LET c == sliceCall(direction, t[1])
  IN  elementAt(c.base, c.hop, c.stride, t[2], t[3])

\* The line of the volume through p parallel to the swept axis.
LineOf(p) == {Along(p, j) : j \in 0 .. Extent - 1}

\* The iteration of convolve1d's loop that processes element p.
SliceOf(p) == IF direction = 2 THEN Vof(p) ELSE Wof(p)

\* C15: for direction 0, 1 or 2, convolve1d accesses elements of the
\* W*H*D range only, every element in exactly one row of exactly one
\* convolve call, that row being the whole line through the element
\* parallel to the swept axis; each line processed so far holds the row
\* convolver's result for the old values of that line alone, and every
\* other element is as it was.
C15_EachLineConvolvedOnce ==
  direction \in 0 .. 2 =>
    LET acc == {<<t, Accessed(t)>> : t \in Accesses}
    IN  /\ \A a \in acc : a[2] \in Elements
        /\ \A p \in Elements : Cardinality({a \in acc : a[2] = p}) = 1
        /\ \A a \in acc :
             /\ sliceCall(direction, a[1][1]).w = Extent
             /\ {Accessed(<<a[1][1], a[1][2], u>>) : u \in 0 .. Extent - 1}
                  = LineOf(a[2])
        /\ \A p \in Elements :
             buffer[p] = IF SliceOf(p) < slice
                           THEN ConvolvedExtension(p, SymmetricIndex)
                           ELSE original[p]

\* C15 witness: a 2 x 2 x 1 volume whose two columns differ has been
\* convolved along Y with 0.25, 0.5, 0.25, and its first column changed.
C15_Witness ==
  /\ cpc = "done" /\ direction = 1
  /\ width = 2 /\ height = 2 /\ depth = 1
  /\ kernel = <<1, 2, 1>>
  /\ original[0] # original[1]
  /\ original[0] # original[2]
  /\ buffer[0] # original[0]
  /\ buffer[0] = ConvolvedExtension(0, SymmetricIndex)

(***************************************************************************)
(* GaussianKernel1D and Convolution::Convolve.  A float is modelled by its *)
(* class: "zero", "fin" (finite and not zero), "inf" or "nan"; sigma is    *)
(* a sign and a magnitude in units of 1/FRAC, so that -0 is an input.      *)
(* Products and quotients of "fin" values are taken to stay "fin": the     *)
(* builder's operands are far from the overflow and underflow thresholds.  *)
(***************************************************************************)
MaxSigmaQ == 5     \* sigma is at most MaxSigmaQ / FRAC
MaxPasses == 2     \* the sigmas and directions arrays hold at most this many

\* sqrt(2 * log(1 / tol)) for the default tol = 0.001, times 100000.
CutoffE5 == 371692

mulClass(a, b) ==
  IF a = "nan" \/ b = "nan" THEN "nan"
  ELSE IF (a = "zero" /\ b = "inf") \/ (a = "inf" /\ b = "zero") THEN "nan"
  ELSE IF a = "inf" \/ b = "inf" THEN "inf"
  ELSE IF a = "zero" \/ b = "zero" THEN "zero"
  ELSE "fin"

divClass(a, b) ==
  IF a = "nan" \/ b = "nan" THEN "nan"
  ELSE IF (a = "zero" /\ b = "zero") \/ (a = "inf" /\ b = "inf") THEN "nan"
  ELSE IF b = "zero" \/ a = "inf" THEN "inf"
  ELSE IF a = "zero" \/ b = "inf" THEN "zero"
  ELSE "fin"

\* pow(a, 2)
squareClass(a) == a

\* exp(-0.5 * a) for a >= 0 or NaN
expNegHalfClass(a) ==
  IF a = "nan" THEN "nan" ELSE IF a = "inf" THEN "zero" ELSE "fin"

classOfInt(x) == IF x = 0 THEN "zero" ELSE "fin"

classOfSigma(sg) == IF sg.q = 0 THEN "zero" ELSE "fin"

\* "if (sigma < 0.0f) sigma = -sigma;": -0 is not smaller than 0.
absSigma(sg) == IF sg.neg /\ sg.q > 0 THEN [neg |-> FALSE, q |-> sg.q] ELSE sg

\* static_cast<int>(floor(sigma * sqrt(2 * log(1 / tol))))
radiusOf(sg) == (sg.q * CutoffE5) \div (FRAC * 100000)

\* GaussianKernel1D::GaussianKernel1D(sigma): _radius and _data, the
\* coefficient of x at index _radius + x (here + 1).
GaussianKernel1D(sg) ==
  LET a    == absSigma(sg)
      r    == radiusOf(a)
      norm == divClass("fin", mulClass(classOfSigma(a), "fin"))
  IN  [radius |-> r,
       data   |-> [i \in 1 .. 2 * r + 1 |->
                     mulClass(norm,
                              expNegHalfClass(
                                squareClass(divClass(classOfInt(i - 1 - r),
                                                     classOfSigma(a)))))]]

\* "sum += kernel[k] * i[k]" for every element of a buffer of class img:
\* the classes the buffer of sums can have.  A NaN coefficient makes every
\* sum NaN, and a NaN sample the sums of its line.  An infinite sample or
\* coefficient makes a sum infinite, or NaN where it meets a zero or an
\* infinity of the other sign.  Finite float samples under finite
\* coefficients give finite sums unless one overflows to an infinity (the
\* builder's kernels have one coefficient above 1 at most, so two
\* overflows of opposite sign do not meet); the values of unsigned char and
\* short are too small to overflow.
sumClasses(type, kern, img) ==
  IF img = "nan" \/ \E k \in DOMAIN kern : kern[k] = "nan" THEN {"nan"}
  ELSE IF img = "inf" \/ \E k \in DOMAIN kern : kern[k] = "inf"
    THEN {"inf", "nan"}
  ELSE IF type = "float" THEN {"finite", "inf"}
  ELSE {img}

\* writerT<T> by class.  For unsigned char and short an infinite sum
\* saturates; both comparisons are false on NaN and the conversion
\* (T)(x + 0.5f) of NaN is undefined: the element then holds any value of
\* T, "indeterminate".
writerClass(type, x) ==
  IF type = "float" THEN x
  ELSE IF x = "nan" THEN "indeterminate"
  ELSE IF x = "inf" THEN "finite"
  ELSE x

\* convolve1d<T> along axis 0, 1 or 2, by class: every element is on one
\* line and is replaced by the written-back sum of its line.
convolve1dClasses(type, img, kern) ==
  {writerClass(type, x) : x \in sumClasses(type, kern, img)}

\* The values a Direction can hold: the enumerators 0, 1, 2 and, the enum
\* being an int underneath, any other int.
DirectionValues == -1 .. 3

SigmaValues == {[neg |-> n, q |-> k] : n \in BOOLEAN, k \in 0 .. MaxSigmaQ}

InitGauss ==
  /\ pixelType \in PixelTypes
  /\ sigmas \in UNION {[1 .. k -> SigmaValues] : k \in 0 .. MaxPasses}
  /\ directions \in UNION {[1 .. k -> DirectionValues] : k \in 0 .. MaxPasses}
  /\ pass = 0
  /\ gaussian = NoKernel
  /\ image = "finite"
  /\ gpc = "start"
  /\ error = ""
  /\ buffer = <<>> /\ original = <<>> /\ kernel = <<>>
  /\ direction = 0 /\ slice = 0 /\ cpc = "idle"
  /\ parent = <<>> /\ rank = <<>>
  /\ SetIdle
  /\ CCIdle
  /\ RowsIdle

\* Convolve, "if (directions->Length != sigmas->Length) throw ...".
ConvolveLengthMismatch ==
  /\ gpc = "start"
  /\ Len(directions) # Len(sigmas)
  /\ gpc' = "threw"
  /\ error' = "Arrays of directions and sigmas should be of the same length."
  /\ UNCHANGED <<sigmas, directions, pass, gaussian, image>>
  /\ UNCHANGED <<parent, rank, cls, lastCall>>
  /\ UNCHANGED <<ccVars, convVars, rowVars>>

\* Convolve, "createdataset::GaussianKernel1D kernel(sigmas[d]);".
ConvolveBuildKernel ==
  /\ gpc \in {"start", "loop"}
  /\ Len(directions) = Len(sigmas)
  /\ pass < Len(sigmas)
  /\ gaussian' = GaussianKernel1D(sigmas[pass + 1])
  /\ gpc' = "built"
  /\ UNCHANGED <<sigmas, directions, pass, image>>
  /\ UNCHANGED <<setVars, ccVars, convVars, rowVars>>

\* Convolve, "createdataset::convolve1d<T>(..., (int)direction,
\* kernel.getData(), kernel.getRadius());" for a direction 0, 1 or 2, and
\* the loop's d++.
ConvolvePass ==
  /\ gpc = "built"
  /\ directions[pass + 1] \in 0 .. 2
  /\ image' \in convolve1dClasses(pixelType, image, gaussian.data)
  /\ pass' = pass + 1
  /\ gpc' = "loop"
  /\ UNCHANGED <<sigmas, directions, gaussian>>
  /\ UNCHANGED <<setVars, ccVars, convVars, rowVars>>

\* The same call for any other direction: convolve1d throws before it
\* touches the buffer, and Convolve rethrows the message.
ConvolvePassBadDirection ==
  /\ gpc = "built"
  /\ directions[pass + 1] \notin 0 .. 2
  /\ gpc' = "threw"
  /\ error' = "Direction was out of range."
  /\ UNCHANGED <<sigmas, directions, pass, gaussian, image>>
  /\ UNCHANGED <<parent, rank, cls, lastCall>>
  /\ UNCHANGED <<ccVars, convVars, rowVars>>

\* Convolve returns once d has reached directions->Length.
ConvolveReturn ==
  /\ gpc \in {"start", "loop"}
  /\ Len(directions) = Len(sigmas)
  /\ pass = Len(sigmas)
  /\ gpc' = "done"
  /\ UNCHANGED <<sigmas, directions, pass, gaussian, image>>
  /\ UNCHANGED <<setVars, ccVars, convVars, rowVars>>

NextGauss ==
  \/ ConvolveLengthMismatch
  \/ ConvolveBuildKernel
  \/ ConvolvePass
  \/ ConvolvePassBadDirection
  \/ ConvolveReturn

SpecGauss == InitGauss /\ [][NextGauss]_vars

\* C12 as claimed: a kernel built for sigma = 0 or -0 is the identity
\* kernel, radius 0 and one finite non-zero coefficient (or the call has
\* failed and there is no kernel); no kernel ever holds an infinite or NaN
\* coefficient; and while every pass made so far had sigma = 0 or -0,
\* Convolve has left no non-finite or indeterminate value in a buffer that
\* held none.
C12_Original ==
  /\ (gpc = "built" /\ sigmas[pass + 1].q = 0) =>
       gaussian = [radius |-> 0, data |-> <<"fin">>]
  /\ \A i \in DOMAIN gaussian.data : gaussian.data[i] \in {"zero", "fin"}
  /\ (gpc # "idle" /\ \A i \in 1 .. pass : sigmas[i].q = 0) =>
       image = "finite"

(***************************************************************************)
(* SpecRows: one convolve call, its rows shared among threadCount threads  *)
(* by "#pragma omp parallel for".  A thread that is between rows takes any *)
(* row not yet handed out, which covers every schedule; the loops of the   *)
(* body advance one iteration (gather, write back) or one loop (mirror     *)
(* edges, convolve_reference) per step, interleaved freely.  The call is   *)
(* one that convolve1d makes: iteration slice of the loop of case          *)
(* direction.                                                              *)
(***************************************************************************)
MaxThreads == 2    \* omp_get_max_threads() is at most this

Ranks == 0 .. threadCount - 1

\* Faulty variant of scratchOf: every thread uses the first ThreadData.
scratchOf_shared(rk) == 0

\* "int rank = omp_get_thread_num(); ThreadData& t = *data[rank];": the
\* index into data of the scratch rows thread rk works on.
scratchOf(rk) == rk

\* ThreadData(width, kernel, kernelRadius): two value-initialised vectors.
ThreadData(w, r) ==
  [inputRow  |-> [i \in 0 .. w + 2 * r - 1 |-> 0],
   outputRow |-> [i \in 0 .. w - 1 |-> 0]]

BetweenRows == [v |-> Nil, at |-> "idle", u |-> 0]

\* The buffer of n elements the call is run on: for each pixel type a
\* sequence of distinct values (10, 20, 30, 40 for float), so that no two
\* rows of a slice are alike and no row is symmetric.
RowBuffer(type, n) ==
  LET first == IF type = "float" THEN 10 * FRAC
               ELSE IF type = "uchar" THEN 10 ELSE -13
      step  == IF type = "float" THEN 10 * FRAC
               ELSE IF type = "uchar" THEN 40 ELSE 5
  IN  [e \in 0 .. n - 1 |-> first + step * e]

\* 0.75, 0.25, 0: not symmetric, so a row taken backwards would show.
RowKernels == {<<3, 1, 0>>}

InitRows ==
  /\ \E s \in ConvShapes :
       /\ width = s[1] /\ height = s[2] /\ depth = s[3]
       /\ pixelType \in PixelTypes
       /\ buffer = RowBuffer(pixelType, s[1] * s[2] * s[3])
  /\ original = buffer
  /\ kernel \in RowKernels
  /\ direction \in 0 .. 2
  /\ slice \in 0 .. SliceCount - 1
  /\ cpc = "idle"
  /\ threadCount \in 1 .. MaxThreads
  /\ data = [i \in Ranks |->
               ThreadData(sliceCall(direction, slice).w, KernelRadius(kernel))]
  /\ worker = [rk \in Ranks |-> BetweenRows]
  /\ taken = {}
  /\ readers = [e \in DOMAIN buffer |-> {}]
  /\ writers = [e \in DOMAIN buffer |-> {}]
  /\ scratchUsers = [i \in Ranks |-> {}]
  /\ rpc = "run"
  /\ error = ""
  /\ parent = <<>> /\ rank = <<>>
  /\ SetIdle
  /\ CCRestIdle
  /\ GaussIdle

\* A thread begins an iteration v of the parallel loop.
TakeRow(rk) ==
  /\ rpc = "run"
  /\ worker[rk].at = "idle"
  /\ \E v \in (0 .. sliceCall(direction, slice).h - 1) \ taken :
       /\ worker' = [worker EXCEPT ![rk] = [v |-> v, at |-> "gather", u |-> 0]]
       /\ taken' = taken \cup {v}
  /\ scratchUsers' = [scratchUsers EXCEPT ![scratchOf(rk)] = @ \cup {rk}]
  /\ UNCHANGED <<threadCount, data, readers, writers, rpc>>
  /\ UNCHANGED <<setVars, ccVars, convVars, gaussVars>>

\* "*p++ = Reader((T*)(q)); q += hop;"
Gather(rk) ==
  /\ worker[rk].at = "gather"
  /\ LET c == sliceCall(direction, slice)
         r == KernelRadius(kernel)
         u == worker[rk].u
         e == elementAt(c.base, c.hop, c.stride, worker[rk].v, u)
     IN  /\ data' = [data EXCEPT ![scratchOf(rk)].inputRow[r + u] =
                       readerT(pixelType, buffer[e])]
         /\ readers' = [readers EXCEPT ![e] = @ \cup {rk}]
         /\ worker' = [worker EXCEPT ![rk].u = u + 1,
                                     ![rk].at = IF u + 1 = c.w THEN "mirror"
                                                ELSE "gather"]
  /\ UNCHANGED <<threadCount, taken, writers, scratchUsers, rpc>>
  /\ UNCHANGED <<setVars, ccVars, convVars, gaussVars>>

\* The loop "mirror edges".
Mirror(rk) ==
  /\ worker[rk].at = "mirror"
  /\ LET c == sliceCall(direction, slice)
         r == KernelRadius(kernel)
     IN  data' = [data EXCEPT ![scratchOf(rk)].inputRow =
                    mirrorEdges(@, c.w, r, 0)]
  /\ worker' = [worker EXCEPT ![rk].at = "convolve"]
  /\ UNCHANGED <<threadCount, taken, readers, writers, scratchUsers, rpc>>
  /\ UNCHANGED <<setVars, ccVars, convVars, gaussVars>>

\* "convolve_reference(&(t.inputRow[0]), width + 2*kernelRadius, kernel,
\* kernelRadius, &(t.outputRow[0]));"
ConvolveRow(rk) ==
  /\ worker[rk].at = "convolve"
  /\ LET c == sliceCall(direction, slice)
         r == KernelRadius(kernel)
         t == data[scratchOf(rk)]
     IN  data' = [data EXCEPT ![scratchOf(rk)].outputRow =
                    convolve_reference(t.inputRow, c.w + 2 * r, kernel, r)]
  /\ worker' = [worker EXCEPT ![rk].at = "scatter", ![rk].u = 0]
  /\ UNCHANGED <<threadCount, taken, readers, writers, scratchUsers, rpc>>
  /\ UNCHANGED <<setVars, ccVars, convVars, gaussVars>>

\* "Writer(*s++, (T*)(r)); r += hop;", and the end of the iteration v.
Scatter(rk) ==
  /\ worker[rk].at = "scatter"
  /\ LET c == sliceCall(direction, slice)
         u == worker[rk].u
         e == elementAt(c.base, c.hop, c.stride, worker[rk].v, u)
     IN  /\ buffer' = [buffer EXCEPT ![e] =
                         writerT(pixelType, data[scratchOf(rk)].outputRow[u])]
         /\ writers' = [writers EXCEPT ![e] = @ \cup {rk}]
         /\ worker' = [worker EXCEPT ![rk] =
                         IF u + 1 = c.w THEN BetweenRows
                         ELSE [@ EXCEPT !.u = u + 1]]
  /\ UNCHANGED <<threadCount, data, taken, readers, scratchUsers, rpc>>
  /\ UNCHANGED <<pixelType, original, kernel, direction, slice, cpc>>
  /\ UNCHANGED <<setVars, ccVars, gaussVars>>

\* The barrier that ends the parallel loop: every row done, convolve returns.
Join ==
  /\ rpc = "run"
  /\ taken = 0 .. sliceCall(direction, slice).h - 1
  /\ \A rk \in Ranks : worker[rk].at = "idle"
  /\ rpc' = "done"
  /\ UNCHANGED <<threadCount, data, worker, taken, readers, writers,
                 scratchUsers>>
  /\ UNCHANGED <<setVars, ccVars, convVars, gaussVars>>

NextRows ==
  \/ \E rk \in Ranks : TakeRow(rk)
  \/ \E rk \in Ranks : Gather(rk)
  \/ \E rk \in Ranks : Mirror(rk)
  \/ \E rk \in Ranks : ConvolveRow(rk)
  \/ \E rk \in Ranks : Scatter(rk)
  \/ Join

SpecRows == InitRows /\ [][NextRows]_vars

\* The threads of the parallel loop are not ordered with one another, so
\* two accesses to an element conflict when different threads make them and
\* one of them is a store.
NoConflict ==
  \A e \in DOMAIN buffer :
    /\ Cardinality(writers[e]) <= 1
    /\ writers[e] # {} => readers[e] \subseteq writers[e]

\* C14: for every thread count and every interleaving of the threads'
\* gather, mirror, convolve and write-back steps over the rows of one
\* convolve call that convolve1d makes, no element is stored to by one
\* thread and read or stored to by another, no ThreadData is used by two
\* threads, and when the call returns the buffer is what processing the
\* rows one at a time in order gives.
C14_RowsInParallelAsInOrder ==
  rpc \in {"run", "done"} =>
    /\ NoConflict
    /\ \A i \in Ranks : Cardinality(scratchUsers[i]) <= 1
    /\ rpc = "done" =>
         LET c == sliceCall(direction, slice)
         IN  buffer = convolve(pixelType, c.w, c.h, original, c.base, c.hop,
                               c.stride, kernel, KernelRadius(kernel), 0)

\* C14 witness: a call on two threads has returned; each thread stored to
\* some element, rows of two samples each, and the buffer changed.
C14_Witness ==
  /\ rpc = "done" /\ threadCount = 2
  /\ sliceCall(direction, slice).w = 2
  /\ \E e \in DOMAIN buffer : writers[e] = {0}
  /\ \E e \in DOMAIN buffer : writers[e] = {1}
  /\ buffer # original

====
